---- MODULE Spec2Model ----
(***************************************************************************)
(* Model of the tool-augmented chat turn of src/main.py: one ChatWorker    *)
(* (ChatWorker.run, _stream_final_answer), the GUI thread that may call    *)
(* ChatWorker.abort() concurrently, the set_model tool with the process-   *)
(* wide CURRENT_MODEL pointer, and the completion transport.               *)
(*                                                                         *)
(* Each worker action holds at most one access to state shared with the    *)
(* GUI thread (_abort, _active_stream, a signal emission, a transport      *)
(* call), so every interleaving of abort() with run() is explored.         *)
(***************************************************************************)
EXTENDS Integers, Sequences, FiniteSets, TLC

\* ------------------------------------------------------------------ bounds
MaxCalls == 2       \* tool calls carried by one first response
MaxChunks == 2      \* chunks one streaming response delivers
MaxTurns == 3       \* messages the user sends in one session

\* --------------------------------------------------------------- constants
DefaultModel == "m0"                 \* MODEL, the configured default
Models == {"m1", "m2"}               \* model names a set_model call may ask for
None == <<>>                         \* Python None / "" (both falsy)
EmptyArgs == [valid |-> FALSE, dict |-> <<>>].dict

\* FUNCTIONS: the name -> callable table of main.py
FUNCTIONS == {"add", "read_file", "write_file", "list_models", "set_model"}

\* the three unload requests set_model tries, in order
UnloadPaths == << [path |-> "/api/unload", key |-> "model"],
                  [path |-> "/api/stop", key |-> "model"],
                  [path |-> "/api/stop", key |-> "name"] >>

\* Tool calls a first response may carry (function name + raw arguments;
\* valid = FALSE is argument text that is not JSON).
ToolCallPool ==
  << [name |-> "add", arguments |-> [valid |-> TRUE, dict |-> [a |-> 2, b |-> 3]]],
     [name |-> "set_model", arguments |-> [valid |-> FALSE, dict |-> <<>>]],
     [name |-> "nope", arguments |-> [valid |-> TRUE, dict |-> <<>>]],
     [name |-> "set_model", arguments |-> [valid |-> TRUE,
         dict |-> [model |-> "m1", unload_previous |-> TRUE]]],
     [name |-> "set_model", arguments |-> [valid |-> TRUE,
         dict |-> [model |-> "m2", ensure_loaded |-> FALSE]]] >>

\* Server-assigned tool-call ids: opaque, unique within a response.
CallId(i) == 100 - i

\* Texts are sequences of characters.
Texts == { <<>>, <<"h", "i">>, <<" ", "h", " ">> }

\* id of a tool call that a response after the first one carries
LaterCallId == 900

\* Chunks of a streaming response: choices[0] with its delta.content,
\* message.content and text fields (None when absent or empty); the third
\* is a delta that carries a tool call (id LaterCallId) and no text.
ChunkPool ==
  << [choices |-> TRUE, delta |-> <<" ", "h">>, message |-> <<"x">>, text |-> None,
      tool_call |-> FALSE],
     [choices |-> FALSE, delta |-> None, message |-> None, text |-> None,
      tool_call |-> FALSE],
     [choices |-> TRUE, delta |-> None, message |-> None, text |-> None,
      tool_call |-> TRUE] >>

\* The chunks a streaming response may deliver: a server answers with tool
\* calls only when the request offered tool specs.
ChunkKinds(offered) == IF offered THEN 1..3 ELSE 1..2

\* ------------------------------------------------------ inputs of the tools
MaxRegs == 3        \* registrations made with assistant_tools
MaxWrites == 2      \* write_file calls made on one filesystem

\* names tools are registered under, and the implementations registered
ToolNames == {"add", "read_file"}
Impls == 1..2

\* A path is a sequence of segments; an absolute path is one from "/".
\* Directory names are spelled so that one is a string prefix of another:
\* "/s" is a prefix of "/sx" without being one of its parents.
Spell(seg) ==
  CASE seg = "s" -> << "s" >>
    [] seg = "sx" -> << "s", "x" >>
    [] seg = "w" -> << "w" >>
    [] seg = "a" -> << "a" >>
    [] seg = "b" -> << "b" >>
    [] seg = "etc" -> << "e", "t", "c" >>
    [] seg = "passwd" -> << "p" >>
    [] seg = ".." -> << ".", "." >>
    [] OTHER -> << "?" >>

\* the working directories the tools are started in: Path.cwd()
Roots == { << >>, << "s" >>, << "w" >> }

\* path arguments: "../sx" ("../secret.txt"), "/etc/passwd", "a/b", "a/../b", "b"
PathPool ==
  << [abs |-> FALSE, segs |-> << "..", "sx" >>],
     [abs |-> TRUE,  segs |-> << "etc", "passwd" >>],
     [abs |-> FALSE, segs |-> << "a", "b" >>],
     [abs |-> FALSE, segs |-> << "a", "..", "b" >>],
     [abs |-> FALSE, segs |-> << "b" >>] >>

Secret == << "!" >>       \* what the files outside every sandbox hold
Hi == << "h", "i" >>      \* the content written

\* the proper ancestors of an absolute path
Ancestors(p) == {SubSeq(p, 1, k) : k \in 0..(Len(p) - 1)}

\* the files that exist from the start: /sx and /etc/passwd
Outside == [p \in { << "sx" >>, << "etc", "passwd" >> } |-> Secret]

\* ----------------------------------------------------------- pure helpers
\* the truth value of an optional string: None and "" are both false
Truthy(x) == x # None /\ x # << >>

ExtractStreamPieceMessageFirst(chunk) ==
  IF ~chunk.choices THEN None
  ELSE IF Truthy(chunk.message) THEN chunk.message
  ELSE IF Truthy(chunk.delta) THEN chunk.delta
  ELSE IF Truthy(chunk.text) THEN chunk.text
  ELSE None

\* _extract_stream_piece
ExtractStreamPiece(chunk) ==
  IF ~chunk.choices THEN None
  ELSE IF Truthy(chunk.delta) THEN chunk.delta
  ELSE IF Truthy(chunk.message) THEN chunk.message
  ELSE IF Truthy(chunk.text) THEN chunk.text
  ELSE None

IsSpace(c) == c = " "

RECURSIVE LStrip(_)
LStrip(s) == IF s # <<>> /\ IsSpace(Head(s)) THEN LStrip(Tail(s)) ELSE s

RECURSIVE RStrip(_)
RStrip(s) == IF s # <<>> /\ IsSpace(s[Len(s)]) THEN RStrip(SubSeq(s, 1, Len(s) - 1)) ELSE s

StripNone(s) == s

\* str.strip()
Strip(s) == RStrip(LStrip(s))

RECURSIVE Join(_)
\* "".join(buf)
Join(buf) == IF buf = <<>> THEN <<>> ELSE Head(buf) \o Join(Tail(buf))

\* json.loads(tc.function.arguments or "{}") with the except branch of run()
ParseOk(tc) == tc.arguments.valid
ParsedArgs(tc) == IF ParseOk(tc) THEN tc.arguments.dict ELSE EmptyArgs

\* keyword-argument defaults of set_model
ArgEnsureLoaded(a) == IF "ensure_loaded" \in DOMAIN a THEN a.ensure_loaded ELSE TRUE
ArgUnloadPrevious(a) == IF "unload_previous" \in DOMAIN a THEN a.unload_previous ELSE FALSE

\* add(a, b); a call without both arguments raises TypeError, which run()
\* turns into an error envelope
AddResult(a) ==
  IF "a" \in DOMAIN a /\ "b" \in DOMAIN a
  THEN [sum |-> a.a + a.b]
  ELSE [error |-> "TypeError"]

\* ------------------------------------------------------------------- state
VARIABLES
  CURRENT_MODEL,    \* main.py global: the session model pointer
  messages,         \* ChatWorker.messages (the worker's copy)
  cfg,              \* ChatWorker.cfg: [model, use_tools]
  stream,           \* ChatWorker.stream
  _abort,           \* ChatWorker._abort
  _active_stream,   \* ChatWorker._active_stream is not None
  pc,               \* position of the worker thread in run()
  first,            \* first response: [tool_calls, content]
  idx,              \* 1-based position of the for loop over msg.tool_calls
  loc,              \* locals of the dispatch step: name, args, content, old, errors, upath
  sloc,             \* locals of the streaming loop: buf, chunk, exc, path
  transport,        \* the streaming response: [state, read]
  requests,         \* requests issued to the server, in order
  signals,          \* Qt signals emitted by the worker, in order
  dispatched,       \* ids of the tool calls whose dispatch has begun, in order
  apc,              \* position of the GUI thread in on_send / abort()
  hist              \* observation: where the turn stood when abort() set the flag
                    \* (open, checked), what it began afterwards (fetched, late),
                    \* the ids of the calls whose implementation was invoked
                    \* (invoked), tool calls seen in a later response (later),
                    \* the transport call that raised, if any (fault)
VARIABLES
  win,              \* ChatWindow: messages (a list), worker, enabled (send_btn and
                    \* input), use_tools (tools_checkbox), _last_was_streamed,
                    \* history (the turns whose answer append_history has shown)
  threads,          \* the ChatWorker objects on_send has created, by turn
  lists,            \* the Python list objects holding messages, by identity
  events,           \* signal deliveries queued for the GUI thread, in order
  gpc               \* position of the GUI thread in on_send

sessionVars == << win, threads, lists, events, gpc >>

VARIABLES
  registry,         \* assistant_tools: FUNCTIONS, TOOLS, and the registrations made
  fs,               \* the filesystem: cwd (the sandbox root), dirs, files
  out               \* the tool call made last: its arguments and what it returned

toolVars == << registry, fs, out >>

turnVars == << CURRENT_MODEL, messages, cfg, stream, _abort, _active_stream, pc, first,
               idx, loc, sloc, transport, requests, signals, dispatched, apc, hist >>

vars == << turnVars, sessionVars, toolVars >>

workerVars == << messages, cfg, pc, first, idx, loc, sloc >>

NoLoc == [name |-> "", args |-> EmptyArgs, content |-> None, old |-> "", errors |-> <<>>, upath |-> 1]
NoSloc == [buf |-> <<>>, chunk |-> ChunkPool[2], exc |-> FALSE, path |-> "none"]

\* ChatWindow.messages as on_send hands it over: system prompt + user message
Conversation == << [role |-> "system", content |-> <<"s">>],
                   [role |-> "user", content |-> <<"u">>] >>

EmittedFirst(sigs, e) == << e >> \o sigs

\* signal.emit(): the slots see the signals of one thread in emission order
Emitted(sigs, e) == Append(sigs, e)

Emit(sig, val) == signals' = Emitted(signals, [sig |-> sig, val |-> val])

Count(sig) == Cardinality({i \in 1..Len(signals) : signals[i].sig = sig})

\* observation only: an operation begun while the abort flag was already set
Begun == IF _abort THEN [hist EXCEPT !.late = @ + 1] ELSE hist

\* ChatWindow.__init__: self.messages holds the system prompt, no worker yet,
\* the input is enabled; list 0 is the list self.messages names; flagged is
\* observation only: the turn whose stream_started set _last_was_streamed
SystemPrompt == [role |-> "system", content |-> "s", turn |-> 0]

NoThread == [pc |-> "none", _abort |-> FALSE, messages |-> 0, stream |-> FALSE,
             use_tools |-> FALSE]

SessionStart(tools) ==
  /\ win = [messages |-> 0, worker |-> 0, enabled |-> TRUE, use_tools |-> tools,
            _last_was_streamed |-> FALSE, history |-> <<>>, flagged |-> 0]
  /\ threads = [w \in 1..MaxTurns |-> NoThread]
  /\ lists = [l \in 0..MaxTurns |-> IF l = 0 THEN << SystemPrompt >> ELSE <<>>]
  /\ events = <<>>
  /\ gpc = "idle"

\* assistant_tools before any registration; an empty working directory
NoCall == [tool |-> "none", impl |-> "none", arg |-> 0, mode |-> "none",
           result |-> [error |-> "none"], opened |-> << >>, before |-> << >>,
           prev |-> [twice |-> FALSE, before |-> << >>]]

ToolsStart(cwd) ==
  /\ registry = [FUNCTIONS |-> [n \in ToolNames |-> 0], TOOLS |-> <<>>, log |-> <<>>]
  /\ fs = [cwd |-> cwd, files |-> Outside, writes |-> 0,
           dirs |-> Ancestors(cwd) \cup {cwd} \cup UNION {Ancestors(p) : p \in DOMAIN Outside}]
  /\ out = NoCall

\* ChatWorker.__init__ as called by on_send (cfg.model = CURRENT_MODEL)
Init ==
  /\ ToolsStart(<< "w" >>)
  /\ SessionStart(FALSE)
  /\ CURRENT_MODEL = DefaultModel
  /\ messages = Conversation
  /\ \E t \in BOOLEAN : cfg = [model |-> DefaultModel, use_tools |-> t]
  /\ stream \in BOOLEAN
  /\ _abort = FALSE
  /\ _active_stream = FALSE
  /\ pc = "init"
  /\ first = [tool_calls |-> <<>>, content |-> None]
  /\ idx = 1
  /\ loc = NoLoc
  /\ sloc = NoSloc
  /\ transport = [state |-> "none", read |-> 0]
  /\ requests = <<>>
  /\ signals = <<>>
  /\ dispatched = <<>>
  /\ apc = "idle"
  /\ hist = [open |-> FALSE, checked |-> FALSE, fetched |-> 0, late |-> 0,
             invoked |-> <<>>, later |-> FALSE, fault |-> "none"]

\* ------------------------------------------------------- worker: run()
\* worker.start()
Start ==
  /\ pc = "init"
  /\ pc' = "start"
  /\ UNCHANGED << sessionVars, toolVars >>
  /\ UNCHANGED << CURRENT_MODEL, messages, cfg, stream, _abort, _active_stream, first,
                  idx, loc, sloc, transport, requests, signals, dispatched, apc, hist >>

\* the first, non-streaming request is sent
FirstRequest ==
  /\ pc = "start"
  /\ requests' = Append(requests, [kind |-> "first", model |-> cfg.model,
                                   tools |-> cfg.use_tools, stream |-> FALSE])
  /\ pc' = "first_wait"
  /\ UNCHANGED << sessionVars, toolVars >>
  /\ UNCHANGED << CURRENT_MODEL, messages, cfg, stream, _abort, _active_stream, first,
                  idx, loc, sloc, transport, signals, dispatched, apc, hist >>

OnFirstFaultRetry == "start"

\* where run() continues when the first request raises: the except clause
OnFirstFault == "except"

\* the first request raises
FirstFault ==
  /\ pc = "first_wait"
  /\ pc' = OnFirstFault
  /\ hist' = [hist EXCEPT !.fault = "first"]
  /\ UNCHANGED << sessionVars, toolVars >>
  /\ UNCHANGED << CURRENT_MODEL, messages, cfg, stream, _abort, _active_stream, first,
                  idx, loc, sloc, transport, requests, signals, dispatched, apc >>

\* the first request returns a message, with or without tool calls
FirstResponse ==
  /\ pc = "first_wait"
  /\ \E n \in 0..(IF cfg.use_tools THEN MaxCalls ELSE 0) :
       \E f \in [1..n -> 1..Len(ToolCallPool)], text \in Texts :
         /\ (n > 0) => text = None
         /\ first' = [tool_calls |-> [i \in 1..n |->
                         [id |-> CallId(i), name |-> ToolCallPool[f[i]].name,
                          arguments |-> ToolCallPool[f[i]].arguments]],
                      content |-> text]
  /\ pc' = "first_check"
  /\ UNCHANGED << sessionVars, toolVars >>
  /\ UNCHANGED << CURRENT_MODEL, messages, cfg, stream, _abort, _active_stream,
                  idx, loc, sloc, transport, requests, signals, dispatched, apc, hist >>

\* if self._abort: return
FirstCheck ==
  /\ pc = "first_check"
  /\ pc' = IF _abort THEN "ret" ELSE "branch"
  /\ UNCHANGED << sessionVars, toolVars >>
  /\ UNCHANGED << CURRENT_MODEL, messages, cfg, stream, _abort, _active_stream, first,
                  idx, loc, sloc, transport, requests, signals, dispatched, apc, hist >>

\* if getattr(msg, "tool_calls", None): append the assistant message
Branch ==
  /\ pc = "branch"
  /\ IF first.tool_calls # <<>>
     THEN /\ messages' = Append(messages, [role |-> "assistant", content |-> None,
                                           tool_calls |-> first.tool_calls])
          /\ pc' = "loop"
     ELSE /\ messages' = messages
          /\ pc' = "nt_check"
  /\ idx' = 1
  /\ UNCHANGED << sessionVars, toolVars >>
  /\ UNCHANGED << CURRENT_MODEL, cfg, stream, _abort, _active_stream, first,
                  loc, sloc, transport, requests, signals, dispatched, apc, hist >>

\* --------------------------------------------------- worker: tool dispatch
\* for tc in msg.tool_calls: if self._abort: return
LoopAbortsNever(flag) == FALSE

LoopAborts(flag) == flag

\* the call the i-th iteration of the for loop handles
CallAtReversed(calls, i) == calls[Len(calls) + 1 - i]

CallAt(calls, i) == calls[i]

ToolLoopHead ==
  /\ pc = "loop"
  /\ pc' = IF idx > Len(first.tool_calls) THEN "pickup"
           ELSE IF LoopAborts(_abort) THEN "ret" ELSE "parse"
  /\ UNCHANGED << sessionVars, toolVars >>
  /\ UNCHANGED << CURRENT_MODEL, messages, cfg, stream, _abort, _active_stream, first,
                  idx, loc, sloc, transport, requests, signals, dispatched, apc, hist >>

UnknownToolBare(name) == [error |-> << "unknown_tool" >>]

\* content of an unknown tool: json.dumps({"error": f"unknown_tool:{name}"})
UnknownTool(name) == [error |-> << "unknown_tool", name >>]

ParseNoteSilent(ok) == <<>>

\* except Exception as e: self.tool_debug.emit(f"Tool args parse error: {e}")
ParseNote(ok) == IF ok THEN <<>> ELSE << [sig |-> "tool_debug", val |-> "parse_error"] >>

\* name/args are decoded (a parse error is reported on tool_debug and the
\* arguments fall back to {}), then fn = FUNCTIONS.get(name)
ToolParse ==
  /\ pc = "parse"
  /\ LET tc == CallAt(first.tool_calls, idx)
         args == ParsedArgs(tc)
     IN /\ signals' = signals \o ParseNote(ParseOk(tc))
        /\ IF tc.name \in FUNCTIONS
           THEN /\ loc' = [NoLoc EXCEPT !.name = tc.name, !.args = args]
                /\ pc' = "call"
           ELSE /\ loc' = [NoLoc EXCEPT !.name = tc.name, !.args = args,
                                        !.content = UnknownTool(tc.name)]
                /\ pc' = "debug"
        /\ dispatched' = Append(dispatched, tc.id)
  /\ hist' = Begun
  /\ UNCHANGED << sessionVars, toolVars >>
  /\ UNCHANGED << CURRENT_MODEL, messages, cfg, stream, _abort, _active_stream, first,
                  idx, sloc, transport, requests, apc >>

OnToolFaultEscapes == "except"

\* where run() continues when fn(**args) raises: except Exception as e:
\* content = json.dumps({"error": str(e)}), then on to the tool_debug line
OnToolFault == "debug"

\* observation only: fn(**args) is called for the call at hand
Invoked == [hist EXCEPT !.invoked = Append(@, CallAt(first.tool_calls, idx).id)]

\* content = fn(**args) for add
CallAdd ==
  /\ pc = "call"
  /\ loc.name = "add"
  /\ loc' = [loc EXCEPT !.content = AddResult(loc.args)]
  /\ pc' = IF "error" \in DOMAIN AddResult(loc.args) THEN OnToolFault ELSE "debug"
  /\ hist' = Invoked
  /\ UNCHANGED << sessionVars, toolVars >>
  /\ UNCHANGED << CURRENT_MODEL, messages, cfg, stream, _abort, _active_stream, first,
                  idx, sloc, transport, requests, signals, dispatched, apc >>

\* where set_model goes once the model is (or need not be) loaded
UnloadWanted(a, old) == ArgUnloadPrevious(a) /\ old # "" /\ old # a.model

AfterEnsure(a, old) == IF UnloadWanted(a, old) THEN "sm_unload" ELSE "sm_return"

\* set_model: old = CURRENT_MODEL; CURRENT_MODEL = model
\* (a call without the required model argument raises TypeError)
SetModelBegin ==
  /\ pc = "call"
  /\ loc.name = "set_model"
  /\ IF "model" \in DOMAIN loc.args
     THEN /\ CURRENT_MODEL' = loc.args.model
          /\ loc' = [loc EXCEPT !.old = CURRENT_MODEL, !.errors = <<>>, !.upath = 1]
          /\ pc' = IF ArgEnsureLoaded(loc.args) THEN "sm_probe"
                   ELSE AfterEnsure(loc.args, CURRENT_MODEL)
     ELSE /\ CURRENT_MODEL' = CURRENT_MODEL
          /\ loc' = [loc EXCEPT !.content = [error |-> "TypeError"]]
          /\ pc' = OnToolFault
  /\ hist' = Invoked
  /\ UNCHANGED << sessionVars, toolVars >>
  /\ UNCHANGED << messages, cfg, stream, _abort, _active_stream, first,
                  idx, sloc, transport, requests, signals, dispatched, apc >>

\* set_model: the liveness probe (a completion with max_tokens=4) is sent
SetModelProbe ==
  /\ pc = "sm_probe"
  /\ requests' = Append(requests, [kind |-> "probe", model |-> loc.args.model,
                                   tools |-> FALSE, stream |-> FALSE])
  /\ pc' = "sm_probe_wait"
  /\ UNCHANGED << sessionVars, toolVars >>
  /\ UNCHANGED << CURRENT_MODEL, messages, cfg, stream, _abort, _active_stream, first,
                  idx, loc, sloc, transport, signals, dispatched, apc, hist >>

\* set_model: the probe answered
SetModelProbeOk ==
  /\ pc = "sm_probe_wait"
  /\ pc' = AfterEnsure(loc.args, loc.old)
  /\ UNCHANGED << sessionVars, toolVars >>
  /\ UNCHANGED << CURRENT_MODEL, messages, cfg, stream, _abort, _active_stream, first,
                  idx, loc, sloc, transport, requests, signals, dispatched, apc, hist >>

\* the pointer value the except branch of set_model writes back
RolledBackNot(old, model) == model

RolledBack(old, model) == old

\* set_model: the probe raised: CURRENT_MODEL = old; return status "failed"
SetModelProbeFail ==
  /\ pc = "sm_probe_wait"
  /\ CURRENT_MODEL' = RolledBack(loc.old, loc.args.model)
  /\ loc' = [loc EXCEPT !.content = [status |-> "failed", error |-> "ensure_failed",
                                     old |-> loc.old, new |-> loc.args.model]]
  /\ pc' = "debug"
  /\ UNCHANGED << sessionVars, toolVars >>
  /\ UNCHANGED << messages, cfg, stream, _abort, _active_stream, first,
                  idx, sloc, transport, requests, signals, dispatched, apc, hist >>

AfterUnloadNoBreak(ok, k) == IF k = Len(UnloadPaths) THEN "sm_return" ELSE "sm_unload"

\* the for loop over the three paths: break after a success, the next path
\* after a failure, the return statement after the last path
AfterUnload(ok, k) ==
  IF ok \/ k = Len(UnloadPaths) THEN "sm_return" ELSE "sm_unload"

\* set_model: one unload request of the for loop over the three paths;
\* success breaks, a failure is collected into errors
SetModelUnload ==
  /\ pc = "sm_unload"
  /\ requests' = Append(requests, [kind |-> "unload", model |-> loc.old,
                                   tools |-> FALSE, stream |-> FALSE,
                                   path |-> UnloadPaths[loc.upath]])
  /\ \E ok \in BOOLEAN :
       /\ loc' = IF ok THEN loc
                 ELSE [loc EXCEPT !.errors = Append(@, UnloadPaths[loc.upath].path),
                                  !.upath = @ + 1]
       /\ pc' = AfterUnload(ok, loc.upath)
  /\ UNCHANGED << sessionVars, toolVars >>
  /\ UNCHANGED << CURRENT_MODEL, messages, cfg, stream, _abort, _active_stream, first,
                  idx, sloc, transport, signals, dispatched, apc, hist >>

\* set_model: return {"status": "ok", "old": old, "new": CURRENT_MODEL, "errors": errors}
SetModelReturn ==
  /\ pc = "sm_return"
  /\ loc' = [loc EXCEPT !.content = [status |-> "ok", old |-> loc.old,
                                     new |-> CURRENT_MODEL, errors |-> loc.errors]]
  /\ pc' = "debug"
  /\ UNCHANGED << sessionVars, toolVars >>
  /\ UNCHANGED << CURRENT_MODEL, messages, cfg, stream, _abort, _active_stream, first,
                  idx, sloc, transport, requests, signals, dispatched, apc, hist >>

ToolMessageFirstId(tc, name, content) ==
  [role |-> "tool", tool_call_id |-> CallId(1), name |-> name, content |-> content]

\* the tool-role message appended for a call
ToolMessage(tc, name, content) ==
  [role |-> "tool", tool_call_id |-> tc.id, name |-> name, content |-> content]

CallNoteParse(name) == [sig |-> "tool_debug", val |-> "parse_error"]

\* f"Called tool '{name}' with args={args} -> {content[:200]}..."
CallNote(name) == [sig |-> "tool_debug", val |-> name]

\* self.tool_debug.emit("Called tool ..."); self.messages.append({"role": "tool", ...})
ToolFinish ==
  /\ pc = "debug"
  /\ signals' = Emitted(signals, CallNote(loc.name))
  /\ messages' = Append(messages, ToolMessage(CallAt(first.tool_calls, idx), loc.name, loc.content))
  /\ idx' = idx + 1
  /\ pc' = "loop"
  /\ UNCHANGED << sessionVars, toolVars >>
  /\ UNCHANGED << CURRENT_MODEL, cfg, stream, _abort, _active_stream, first,
                  loc, sloc, transport, requests, dispatched, apc, hist >>

\* the model the worker uses after dispatch: self.cfg.model = CURRENT_MODEL
PickedModelStale(current, configured) == configured

PickedModel(current, configured) == current

AfterToolsAgain == "start"

\* where run() continues after the loop over the tool calls: the final
\* answer is asked for, the model is not asked for further tool calls
AfterTools == "final_check"

PickUp ==
  /\ pc = "pickup"
  /\ cfg' = [cfg EXCEPT !.model = PickedModel(CURRENT_MODEL, cfg.model)]
  /\ pc' = AfterTools
  /\ UNCHANGED << sessionVars, toolVars >>
  /\ UNCHANGED << CURRENT_MODEL, messages, stream, _abort, _active_stream, first,
                  idx, loc, sloc, transport, requests, signals, dispatched, apc, hist >>

\* ------------------------------------------- worker: final answer, streaming
\* if not self._abort: (guards result.emit after a stream, and error.emit)
MayReportAlways(flag) == TRUE

MayReport(flag) == ~flag

\* after dispatch: if self.stream and not self._abort: ... elif not self._abort: ...
FinalCheck ==
  /\ pc = "final_check"
  /\ pc' = IF _abort THEN "ret" ELSE IF stream THEN "st_started" ELSE "final_req"
  /\ sloc' = [NoSloc EXCEPT !.path = "tools"]
  /\ UNCHANGED << sessionVars, toolVars >>
  /\ UNCHANGED << CURRENT_MODEL, messages, cfg, stream, _abort, _active_stream, first,
                  idx, loc, transport, requests, signals, dispatched, apc, hist >>

\* no tool calls: if self.stream and not self._abort: ... elif not self._abort: ...
NoToolCheck ==
  /\ pc = "nt_check"
  /\ pc' = IF _abort THEN "ret" ELSE IF stream THEN "st_started" ELSE "emit_first"
  /\ sloc' = [NoSloc EXCEPT !.path = "notools"]
  /\ UNCHANGED << sessionVars, toolVars >>
  /\ UNCHANGED << CURRENT_MODEL, messages, cfg, stream, _abort, _active_stream, first,
                  idx, loc, transport, requests, signals, dispatched, apc, hist >>

\* no tool calls, no streaming: the first response's content is the result
EmitFirst ==
  /\ pc = "emit_first"
  /\ Emit("result", Strip(first.content))
  /\ pc' = "ret"
  /\ UNCHANGED << sessionVars, toolVars >>
  /\ UNCHANGED << CURRENT_MODEL, messages, cfg, stream, _abort, _active_stream, first,
                  idx, loc, sloc, transport, requests, dispatched, apc, hist >>

\* the final non-streaming request (no tool specs) is sent
FinalRequest ==
  /\ pc = "final_req"
  /\ requests' = Append(requests, [kind |-> "final", model |-> cfg.model,
                                   tools |-> FALSE, stream |-> FALSE])
  /\ pc' = "final_wait"
  /\ hist' = Begun
  /\ UNCHANGED << sessionVars, toolVars >>
  /\ UNCHANGED << CURRENT_MODEL, messages, cfg, stream, _abort, _active_stream, first,
                  idx, loc, sloc, transport, signals, dispatched, apc >>

FinalFault ==
  /\ pc = "final_wait"
  /\ pc' = "except"
  /\ hist' = [hist EXCEPT !.fault = "final"]
  /\ UNCHANGED << sessionVars, toolVars >>
  /\ UNCHANGED << CURRENT_MODEL, messages, cfg, stream, _abort, _active_stream, first,
                  idx, loc, sloc, transport, requests, signals, dispatched, apc >>

\* out = (final.choices[0].message.content or "").strip(); self.result.emit(out)
FinalResponse ==
  /\ pc = "final_wait"
  /\ \E text \in Texts : Emit("result", Strip(text))
  /\ pc' = "ret"
  /\ UNCHANGED << sessionVars, toolVars >>
  /\ UNCHANGED << CURRENT_MODEL, messages, cfg, stream, _abort, _active_stream, first,
                  idx, loc, sloc, transport, requests, dispatched, apc, hist >>

\* self.stream_started.emit()
StreamStarted ==
  /\ pc = "st_started"
  /\ Emit("stream_started", None)
  /\ pc' = "st_create"
  /\ UNCHANGED << sessionVars, toolVars >>
  /\ UNCHANGED << CURRENT_MODEL, messages, cfg, stream, _abort, _active_stream, first,
                  idx, loc, sloc, transport, requests, dispatched, apc, hist >>

\* client.chat.completions.create(..., stream=True) is sent; the no-tools
\* path re-offers the tool specs, _stream_final_answer does not
OffersToolsAlways(path, use_tools) == use_tools

\* whether the streaming request carries tools/tool_choice: run()'s own loop
\* adds them when cfg.use_tools, _stream_final_answer never does
OffersTools(path, use_tools) == path = "notools" /\ use_tools

StreamCreate ==
  /\ pc = "st_create"
  /\ requests' = Append(requests, [kind |-> "stream", model |-> cfg.model,
                                   tools |-> OffersTools(sloc.path, cfg.use_tools),
                                   stream |-> TRUE])
  /\ pc' = "st_create_wait"
  /\ hist' = Begun
  /\ UNCHANGED << sessionVars, toolVars >>
  /\ UNCHANGED << CURRENT_MODEL, messages, cfg, stream, _abort, _active_stream, first,
                  idx, loc, sloc, transport, signals, dispatched, apc >>

\* the streaming request raises before a stream exists (outside the try)
StreamCreateFault ==
  /\ pc = "st_create_wait"
  /\ pc' = "except"
  /\ hist' = [hist EXCEPT !.fault = "stream_open"]
  /\ UNCHANGED << sessionVars, toolVars >>
  /\ UNCHANGED << CURRENT_MODEL, messages, cfg, stream, _abort, _active_stream, first,
                  idx, loc, sloc, transport, requests, signals, dispatched, apc >>

\* create() returns the stream object
StreamCreateOk ==
  /\ pc = "st_create_wait"
  /\ transport' = [state |-> "open", read |-> 0]
  /\ pc' = "st_assign"
  /\ UNCHANGED << sessionVars, toolVars >>
  /\ UNCHANGED << CURRENT_MODEL, messages, cfg, stream, _abort, _active_stream, first,
                  idx, loc, sloc, requests, signals, dispatched, apc, hist >>

\* self._active_stream = <the stream>
StreamAssign ==
  /\ pc = "st_assign"
  /\ _active_stream' = TRUE
  /\ pc' = "st_next"
  /\ UNCHANGED << sessionVars, toolVars >>
  /\ UNCHANGED << CURRENT_MODEL, messages, cfg, stream, _abort, first,
                  idx, loc, sloc, transport, requests, signals, dispatched, apc, hist >>

Fetched(chunk) ==
  [hist EXCEPT !.fetched = IF _abort THEN @ + 1 ELSE @,
               !.later = @ \/ chunk.tool_call]

\* for chunk in self._active_stream: the iterator yields a chunk
\* (a stream closed by abort() may still hand over a chunk it had buffered)
StreamChunk ==
  /\ pc = "st_next"
  /\ transport.state \in {"open", "closed"}
  /\ transport.read < MaxChunks
  /\ \E c \in ChunkKinds(requests[Len(requests)].tools) :
       /\ sloc' = [sloc EXCEPT !.chunk = ChunkPool[c]]
       /\ hist' = Fetched(ChunkPool[c])
  /\ transport' = [transport EXCEPT !.read = @ + 1]
  /\ pc' = "st_check"
  /\ UNCHANGED << sessionVars, toolVars >>
  /\ UNCHANGED << CURRENT_MODEL, messages, cfg, stream, _abort, _active_stream, first,
                  idx, loc, requests, signals, dispatched, apc >>

\* the iterator is exhausted (or, once closed, simply ends)
StreamEnd ==
  /\ pc = "st_next"
  /\ transport' = [transport EXCEPT !.state = IF @ = "open" THEN "exhausted" ELSE @]
  /\ pc' = "st_finally"
  /\ UNCHANGED << sessionVars, toolVars >>
  /\ UNCHANGED << CURRENT_MODEL, messages, cfg, stream, _abort, _active_stream, first,
                  idx, loc, sloc, requests, signals, dispatched, apc, hist >>

\* the iterator raises (a transport fault, or a read on a closed response)
StreamFault ==
  /\ pc = "st_next"
  /\ transport' = [transport EXCEPT !.state = IF @ = "open" THEN "faulted" ELSE @]
  /\ sloc' = [sloc EXCEPT !.exc = TRUE]
  /\ pc' = "st_finally"
  /\ hist' = [hist EXCEPT !.fault = "stream_read"]
  /\ UNCHANGED << sessionVars, toolVars >>
  /\ UNCHANGED << CURRENT_MODEL, messages, cfg, stream, _abort, _active_stream, first,
                  idx, loc, requests, signals, dispatched, apc >>

\* self.isInterruptionRequested(): requestInterruption() is never called
IsInterruptionRequested == FALSE

\* if self._abort or self.isInterruptionRequested(): break
StreamCheck ==
  /\ pc = "st_check"
  /\ pc' = IF _abort \/ IsInterruptionRequested THEN "st_finally" ELSE "st_piece"
  /\ UNCHANGED << sessionVars, toolVars >>
  /\ UNCHANGED << CURRENT_MODEL, messages, cfg, stream, _abort, _active_stream, first,
                  idx, loc, sloc, transport, requests, signals, dispatched, apc, hist >>

\* piece = _extract_stream_piece(chunk); if piece: buf.append; stream_delta.emit
StreamPiece ==
  /\ pc = "st_piece"
  /\ LET piece == ExtractStreamPiece(sloc.chunk)
     IN IF Truthy(piece)
        THEN /\ sloc' = [sloc EXCEPT !.buf = Append(@, piece)]
             /\ Emit("stream_delta", piece)
        ELSE UNCHANGED << sloc, signals >>
  /\ pc' = "st_next"
  /\ UNCHANGED << sessionVars, toolVars >>
  /\ UNCHANGED << CURRENT_MODEL, messages, cfg, stream, _abort, _active_stream, first,
                  idx, loc, transport, requests, dispatched, apc, hist >>

\* finally: self._active_stream = None
StreamFinally ==
  /\ pc = "st_finally"
  /\ _active_stream' = FALSE
  /\ pc' = "st_fin_emit"
  /\ UNCHANGED << sessionVars, toolVars >>
  /\ UNCHANGED << CURRENT_MODEL, messages, cfg, stream, _abort, first,
                  idx, loc, sloc, transport, requests, signals, dispatched, apc, hist >>

\* how many stream_finished the finally block emits
FinallyEmitsUnlessFault(exc) == IF exc THEN 0 ELSE 1

FinallyEmits(exc) == 1

\* finally: self.stream_finished.emit(); a pending exception then propagates
StreamFinished ==
  /\ pc = "st_fin_emit"
  /\ signals' = signals \o [i \in 1..FinallyEmits(sloc.exc) |->
                              [sig |-> "stream_finished", val |-> None]]
  /\ pc' = IF sloc.exc THEN "except" ELSE "st_result_check"
  /\ UNCHANGED << sessionVars, toolVars >>
  /\ UNCHANGED << CURRENT_MODEL, messages, cfg, stream, _abort, _active_stream, first,
                  idx, loc, sloc, transport, requests, dispatched, apc, hist >>

\* if not self._abort: (before result.emit of the streamed text)
StreamResultCheck ==
  /\ pc = "st_result_check"
  /\ pc' = IF MayReport(_abort) THEN "emit_result" ELSE "ret"
  /\ UNCHANGED << sessionVars, toolVars >>
  /\ UNCHANGED << CURRENT_MODEL, messages, cfg, stream, _abort, _active_stream, first,
                  idx, loc, sloc, transport, requests, signals, dispatched, apc, hist >>

\* self.result.emit("".join(buf).strip())
EmitResult ==
  /\ pc = "emit_result"
  /\ Emit("result", Strip(Join(sloc.buf)))
  /\ pc' = "ret"
  /\ UNCHANGED << sessionVars, toolVars >>
  /\ UNCHANGED << CURRENT_MODEL, messages, cfg, stream, _abort, _active_stream, first,
                  idx, loc, sloc, transport, requests, dispatched, apc, hist >>

\* except Exception as e: if not self._abort:
Except ==
  /\ pc = "except"
  /\ pc' = IF MayReport(_abort) THEN "emit_error" ELSE "ret"
  /\ UNCHANGED << sessionVars, toolVars >>
  /\ UNCHANGED << CURRENT_MODEL, messages, cfg, stream, _abort, _active_stream, first,
                  idx, loc, sloc, transport, requests, signals, dispatched, apc, hist >>

\* self.error.emit(str(e))
EmitError ==
  /\ pc = "emit_error"
  /\ Emit("error", None)
  /\ pc' = "ret"
  /\ UNCHANGED << sessionVars, toolVars >>
  /\ UNCHANGED << CURRENT_MODEL, messages, cfg, stream, _abort, _active_stream, first,
                  idx, loc, sloc, transport, requests, dispatched, apc, hist >>

\* run() returns: the thread ends and QThread emits finished
Return ==
  /\ pc = "ret"
  /\ Emit("finished", None)
  /\ pc' = "done"
  /\ UNCHANGED << sessionVars, toolVars >>
  /\ UNCHANGED << CURRENT_MODEL, messages, cfg, stream, _abort, _active_stream, first,
                  idx, loc, sloc, transport, requests, dispatched, apc, hist >>

\* ------------------------------------------------ GUI thread: abort()
\* the positions between a flag check that passed and the operation it guards
CheckPassed == {"parse", "final_req", "st_started", "st_create"}

\* on_send / closeEvent: if self.worker and self.worker.isRunning():
\*     self.worker.abort(), whose first statement is self._abort = True
AbortSet ==
  /\ apc = "idle"
  /\ pc \notin {"init", "done"}
  /\ _abort' = TRUE
  /\ hist' = [hist EXCEPT !.open = _active_stream, !.checked = (pc \in CheckPassed)]
  /\ apc' = "a_test"
  /\ UNCHANGED << sessionVars, toolVars >>
  /\ UNCHANGED << CURRENT_MODEL, messages, cfg, stream, _active_stream, pc, first,
                  idx, loc, sloc, transport, requests, signals, dispatched >>

\* abort(): if self._active_stream and hasattr(self._active_stream, "close"):
AbortTest ==
  /\ apc = "a_test"
  /\ apc' = IF _active_stream THEN "a_close" ELSE "a_done"
  /\ UNCHANGED << sessionVars, toolVars >>
  /\ UNCHANGED << CURRENT_MODEL, messages, cfg, stream, _abort, _active_stream, pc, first,
                  idx, loc, sloc, transport, requests, signals, dispatched, hist >>

\* abort(): self._active_stream.close(); when the worker has cleared the
\* attribute in between, None.close() raises and the except swallows it
AbortClose ==
  /\ apc = "a_close"
  /\ transport' = IF _active_stream THEN [transport EXCEPT !.state = "closed"] ELSE transport
  /\ apc' = "a_done"
  /\ UNCHANGED << sessionVars, toolVars >>
  /\ UNCHANGED << CURRENT_MODEL, messages, cfg, stream, _abort, _active_stream, pc, first,
                  idx, loc, sloc, requests, signals, dispatched, hist >>

\* ------------------------------------------------------------ specification
Worker ==
  \/ Start \/ FirstRequest \/ FirstFault \/ FirstResponse \/ FirstCheck \/ Branch
  \/ ToolLoopHead \/ ToolParse \/ CallAdd
  \/ SetModelBegin \/ SetModelProbe \/ SetModelProbeOk \/ SetModelProbeFail
  \/ SetModelUnload \/ SetModelReturn \/ ToolFinish \/ PickUp
  \/ FinalCheck \/ NoToolCheck \/ EmitFirst \/ FinalRequest \/ FinalFault \/ FinalResponse
  \/ StreamStarted \/ StreamCreate \/ StreamCreateFault \/ StreamCreateOk \/ StreamAssign
  \/ StreamChunk \/ StreamEnd \/ StreamFault \/ StreamCheck \/ StreamPiece
  \/ StreamFinally \/ StreamFinished \/ StreamResultCheck \/ EmitResult
  \/ Except \/ EmitError \/ Return

Gui == AbortSet \/ AbortTest \/ AbortClose

Next == Worker \/ Gui

Spec == Init /\ [][Next]_vars

\* the worker thread keeps being scheduled and every transport call returns
\* or faults; the GUI thread need not call abort() at all
FairSpec == Spec /\ WF_vars(Worker)

TypeOK ==
  /\ CURRENT_MODEL \in Models \cup {DefaultModel}
  /\ _abort \in BOOLEAN
  /\ _active_stream \in BOOLEAN
  /\ idx \in 1..(MaxCalls + 1)
  /\ transport.read \in 0..MaxChunks

\* ------------------------------------------- session: ChatWindow and its workers
\* One ChatWindow over several turns.  run() is followed through the same
\* branches as above, with one tool call per first response; what is kept is
\* what decides the state of the window: the signals whose slots write the
\* window's fields (stream_started, result, error, finished) in the order
\* they are queued for the GUI thread, whether each thread is still running,
\* and the lists the messages are kept in.  The slots of tool_debug,
\* stream_delta and stream_finished write to the history widget only.

UserMessage(n) == [role |-> "user", content |-> "u", turn |-> n]
AssistantCalls(w) == [role |-> "assistant", content |-> "tool_calls", turn |-> w]
ToolReply(w) == [role |-> "tool", content |-> "r", turn |-> w]
AssistantText(w) == [role |-> "assistant", content |-> "a", turn |-> w]

\* QThread.isRunning()
Live(w) == threads[w].pc \notin {"none", "done"}

\* turns started so far
Turns == Cardinality({w \in 1..MaxTurns : threads[w].pc # "none"})

\* signal.emit() from the worker thread: a queued call of the connected slot
Post(w, sig) == events' = Append(events, [w |-> w, sig |-> sig])

Goto(w, p) == threads' = [threads EXCEPT ![w].pc = p]

\* self.messages.append(...) inside the worker
Store(w, m) == lists' = [lists EXCEPT ![threads[w].messages] = Append(@, m)]

\* a call inside the try of run() raises:
\* except Exception as e: if not self._abort: self.error.emit(str(e))
Raise(w) ==
  /\ IF threads[w]._abort THEN UNCHANGED events ELSE Post(w, "error")
  /\ Goto(w, "ret")

\* if self.stream and not self._abort: ... elif not self._abort: ...
\* after the tool loop (tools) and on the path without tool calls
FinalBranch(w, tools) ==
  IF threads[w]._abort
  THEN Goto(w, "ret") /\ UNCHANGED events
  ELSE IF threads[w].stream
       THEN Goto(w, "st_open") /\ Post(w, "stream_started")
       ELSE Goto(w, IF tools THEN "final_wait" ELSE "emit") /\ UNCHANGED events

\* the first request raises
RunFirstFault(w) ==
  /\ threads[w].pc = "first_wait"
  /\ Raise(w)
  /\ UNCHANGED << toolVars, turnVars, win, lists, gpc >>

\* the first request returns with tool calls (tools were offered):
\* if self._abort: return; append the assistant message; for tc in ...:
\* if self._abort: return
RunFirstCalls(w) ==
  /\ threads[w].pc = "first_wait"
  /\ threads[w].use_tools
  /\ IF threads[w]._abort
     THEN Goto(w, "ret") /\ UNCHANGED lists
     ELSE Goto(w, "call") /\ Store(w, AssistantCalls(w))
  /\ UNCHANGED << toolVars, turnVars, win, events, gpc >>

\* the first request returns without tool calls
RunFirstText(w) ==
  /\ threads[w].pc = "first_wait"
  /\ FinalBranch(w, FALSE)
  /\ UNCHANGED << toolVars, turnVars, win, lists, gpc >>

\* the tool returns: append the tool message; the loop ends
RunToolFinish(w) ==
  /\ threads[w].pc = "call"
  /\ Store(w, ToolReply(w))
  /\ FinalBranch(w, TRUE)
  /\ UNCHANGED << toolVars, turnVars, win, gpc >>

\* the final request raises
RunFinalFault(w) ==
  /\ threads[w].pc = "final_wait"
  /\ Raise(w)
  /\ UNCHANGED << toolVars, turnVars, win, lists, gpc >>

\* the final request returns: self.result.emit(out)
RunFinalResponse(w) ==
  /\ threads[w].pc = "final_wait"
  /\ Post(w, "result")
  /\ Goto(w, "ret")
  /\ UNCHANGED << toolVars, turnVars, win, lists, gpc >>

\* create(stream=True) returns the iterator
RunStreamOpen(w) ==
  /\ threads[w].pc = "st_open"
  /\ Goto(w, "st_read")
  /\ UNCHANGED << toolVars, turnVars, win, lists, events, gpc >>

\* create(stream=True) raises, or the iterator does
RunStreamFault(w) ==
  /\ threads[w].pc \in {"st_open", "st_read"}
  /\ Raise(w)
  /\ UNCHANGED << toolVars, turnVars, win, lists, gpc >>

\* the loop over the iterator ends or breaks: if not self._abort: ...
RunStreamEnd(w) ==
  /\ threads[w].pc = "st_read"
  /\ Goto(w, IF threads[w]._abort THEN "ret" ELSE "emit")
  /\ UNCHANGED << toolVars, turnVars, win, lists, events, gpc >>

\* self.result.emit(...) behind a check of _abort that has passed
RunEmitResult(w) ==
  /\ threads[w].pc = "emit"
  /\ Post(w, "result")
  /\ Goto(w, "ret")
  /\ UNCHANGED << toolVars, turnVars, win, lists, gpc >>

\* run() returns: QThread emits finished() from the thread that is ending
RunReturn(w) ==
  /\ threads[w].pc = "ret"
  /\ Post(w, "finished")
  /\ Goto(w, "exiting")
  /\ UNCHANGED << toolVars, turnVars, win, lists, gpc >>

Ended == [NoThread EXCEPT !.pc = "done"]

\* the thread has ended: isRunning() is False from here on, and nothing reads
\* the fields of the worker or its list of messages any more
RunExit(w) ==
  /\ threads[w].pc = "exiting"
  /\ threads' = [threads EXCEPT ![w] = Ended]
  /\ lists' = IF threads[w].messages = win.messages THEN lists
              ELSE [lists EXCEPT ![threads[w].messages] = <<>>]
  /\ UNCHANGED << toolVars, turnVars, win, events, gpc >>

Run(w) ==
  \/ RunFirstFault(w) \/ RunFirstCalls(w) \/ RunFirstText(w) \/ RunToolFinish(w)
  \/ RunFinalFault(w) \/ RunFinalResponse(w)
  \/ RunStreamOpen(w) \/ RunStreamFault(w) \/ RunStreamEnd(w)
  \/ RunEmitResult(w) \/ RunReturn(w) \/ RunExit(w)

\* the positions of run() at which the thread is inside a call that can take
\* longer than the 2000 ms of wait(): a request, a read of the stream, a tool
Blocking == {"first_wait", "call", "final_wait", "st_open", "st_read"}

\* self.worker.wait(2000) returns although the thread, at p, has not ended
MayOutlast(p) == p \in Blocking

SnapshotAlias(own, fresh) == own

\* ChatWorker.__init__: self.messages = messages[:], a list of its own
Snapshot(own, fresh) == fresh

\* on_send from self.append_history("user", content) to self.worker.start()
StartTurn(n) ==
  /\ \E s \in BOOLEAN :
       threads' = [threads EXCEPT ![n] =
                     [NoThread EXCEPT !.pc = "first_wait",
                                      !.messages = Snapshot(win.messages, n),
                                      !.stream = s, !.use_tools = win.use_tools]]
  /\ lists' = LET said == Append(lists[win.messages], UserMessage(n))
              IN [lists EXCEPT ![n] = said, ![win.messages] = said]
  /\ win' = [win EXCEPT !.worker = n, !.enabled = FALSE]
  /\ gpc' = "idle"

\* send_btn.clicked / input.returnPressed reach on_send only while enabled
MaySend == gpc = "idle" /\ win.enabled /\ Turns < MaxTurns

\* if self.worker and self.worker.isRunning()
WorkerRunning == win.worker # 0 /\ Live(win.worker)

\* on_send with no worker running
OnSend ==
  /\ MaySend
  /\ ~WorkerRunning
  /\ StartTurn(Turns + 1)
  /\ UNCHANGED << toolVars, turnVars, events >>

\* on_send with a worker running: self.worker.abort(), then wait(2000) blocks
\* the GUI thread
OnSendAbort ==
  /\ MaySend
  /\ WorkerRunning
  /\ threads' = [threads EXCEPT ![win.worker]._abort = TRUE]
  /\ gpc' = "wait"
  /\ UNCHANGED << toolVars, turnVars, win, lists, events >>

\* wait(2000) returns, the thread ended or not, and on_send goes on
OnSendResume ==
  /\ gpc = "wait"
  /\ ~Live(win.worker) \/ MayOutlast(threads[win.worker].pc)
  /\ StartTurn(Turns + 1)
  /\ UNCHANGED << toolVars, turnVars, events >>

\* the GUI event loop, also the one QMessageBox.critical runs while the
\* dialog is open, calls the slot of the oldest queued signal
Slot(sig) ==
  /\ gpc \in {"idle", "dialog"}
  /\ events # <<>>
  /\ Head(events).sig = sig
  /\ events' = Tail(events)
  /\ gpc' = gpc

\* on_result: the text is appended to the conversation, and to the history
\* unless the flag says it was streamed
OnResult ==
  /\ Slot("result")
  /\ lists' = [lists EXCEPT ![win.messages] = Append(@, AssistantText(Head(events).w))]
  /\ win' = IF win._last_was_streamed
            THEN [win EXCEPT !._last_was_streamed = FALSE, !.flagged = 0]
            ELSE [win EXCEPT !.history = Append(@, Head(events).w)]
  /\ UNCHANGED << toolVars, turnVars, threads >>

\* on_error: QMessageBox.critical(...) opens the modal dialog
OnError ==
  /\ gpc = "idle"
  /\ events # <<>>
  /\ Head(events).sig = "error"
  /\ events' = Tail(events)
  /\ gpc' = "dialog"
  /\ UNCHANGED << toolVars, turnVars, win, threads, lists >>

\* on_error: the dialog is dismissed, then setEnabled(True)
OnErrorClose ==
  /\ gpc = "dialog"
  /\ gpc' = "idle"
  /\ win' = [win EXCEPT !.enabled = TRUE]
  /\ UNCHANGED << toolVars, turnVars, threads, lists, events >>

OnWorkerFinished ==
  /\ Slot("finished")
  /\ win' = [win EXCEPT !.enabled = TRUE]
  /\ UNCHANGED << toolVars, turnVars, threads, lists >>

OnStreamStarted ==
  /\ Slot("stream_started")
  /\ win' = [win EXCEPT !._last_was_streamed = TRUE, !.flagged = Head(events).w]
  /\ UNCHANGED << toolVars, turnVars, threads, lists >>

SessionWorker == \E w \in 1..MaxTurns : Run(w)

Window ==
  \/ OnSend \/ OnSendAbort \/ OnSendResume
  \/ OnResult \/ OnError \/ OnErrorClose \/ OnWorkerFinished \/ OnStreamStarted

SessionNext == SessionWorker \/ Window

\* no turn of the first specification is under way
TurnIdle ==
  /\ CURRENT_MODEL = DefaultModel
  /\ messages = Conversation
  /\ cfg = [model |-> DefaultModel, use_tools |-> FALSE]
  /\ stream = FALSE
  /\ _abort = FALSE
  /\ _active_stream = FALSE
  /\ pc = "init"
  /\ first = [tool_calls |-> <<>>, content |-> None]
  /\ idx = 1
  /\ loc = NoLoc
  /\ sloc = NoSloc
  /\ transport = [state |-> "none", read |-> 0]
  /\ requests = <<>>
  /\ signals = <<>>
  /\ dispatched = <<>>
  /\ apc = "idle"
  /\ hist = [open |-> FALSE, checked |-> FALSE, fetched |-> 0, late |-> 0,
             invoked |-> <<>>, later |-> FALSE, fault |-> "none"]

\* the window as constructed
SessionInit ==
  /\ ToolsStart(<< "w" >>)
  /\ \E t \in BOOLEAN : SessionStart(t)
  /\ TurnIdle

Session == SessionInit /\ [][SessionNext]_vars

\* ------------------------------------------------------------------ tools
\* The tools as functions of their arguments and of the filesystem or the
\* endpoints they talk to, called one at a time.  The registry of
\* assistant_tools is filled at import time; main.py calls its own tool
\* functions and does not import that package, so the registrations and the
\* calls are followed apart.

\* register_tool(name, fn, ...), and _load_module of a module whose TOOL_NAME
\* is name: FUNCTIONS[name] = fn; TOOLS.append(spec)
RegisterTool ==
  /\ Len(registry.log) < MaxRegs
  /\ out = NoCall
  /\ \E name \in ToolNames, fn \in Impls :
       registry' = [FUNCTIONS |-> [registry.FUNCTIONS EXCEPT ![name] = fn],
                    TOOLS |-> Append(registry.TOOLS, [name |-> name, fn |-> fn]),
                    log |-> Append(registry.log, [name |-> name, fn |-> fn])]
  /\ UNCHANGED << turnVars, sessionVars, fs, out >>

\* os.path.normpath on the segments: "x/.." cancels, a ".." with nothing to
\* cancel stays in a relative path and is dropped at the root of an absolute one
RECURSIVE NormSegs(_, _, _)
NormSegs(segs, acc, abs) ==
  IF segs = << >> THEN acc
  ELSE IF Head(segs) # ".." THEN NormSegs(Tail(segs), Append(acc, Head(segs)), abs)
  ELSE IF acc # << >> /\ acc[Len(acc)] # ".."
       THEN NormSegs(Tail(segs), SubSeq(acc, 1, Len(acc) - 1), abs)
  ELSE IF abs THEN NormSegs(Tail(segs), acc, abs)
  ELSE NormSegs(Tail(segs), Append(acc, ".."), abs)

NormPath(p) == NormSegs(p.segs, << >>, p.abs)

\* the file a relative, normalised path names: open() resolves it from the cwd
FromCwd(segs) == NormSegs(fs.cwd \o segs, << >>, TRUE)

\* (SAFE_ROOT / path).resolve(): an absolute path replaces the root
Candidate(p) == NormSegs(IF p.abs THEN p.segs ELSE fs.cwd \o p.segs, << >>, TRUE)

\* str() of an absolute path
RECURSIVE Str(_)
Str(p) == IF p = << >> THEN << >> ELSE << "/" >> \o Spell(Head(p)) \o Str(Tail(p))

PathStr(p) == IF p = << >> THEN << "/" >> ELSE Str(p)

StartsWith(a, b) == Len(b) <= Len(a) /\ SubSeq(a, 1, Len(b)) = b

\* _resolve_path: str(candidate).startswith(str(SAFE_ROOT.resolve()))
Inside(candidate, root) == StartsWith(PathStr(candidate), PathStr(root))

\* main.py, file_ops.py, tools.py:
\* os.path.isabs(path) or ".." in norm.split(os.sep)
Unsafe(p) == p.abs \/ \E k \in 1..Len(NormPath(p)) : NormPath(p)[k] = ".."

\* what a read of the file or directory at t gives
ReadAt(t, shown) ==
  IF t \in fs.dirs THEN [error |-> "IsADirectoryError"]
  ELSE IF t \notin DOMAIN fs.files THEN [error |-> "not_found"]
  ELSE [path |-> shown, preview |-> fs.files[t]]

Opened(t) == IF t \in DOMAIN fs.files THEN << t >> ELSE << >>

Called(tool, impl, i, mode, result, opened, before) ==
  out' = [tool |-> tool, impl |-> impl, arg |-> i, mode |-> mode, result |-> result,
          opened |-> opened, before |-> before,
          prev |-> IF /\ tool = "write_file" /\ out.tool = tool
                      /\ out.impl = impl /\ out.arg = i /\ out.mode = mode
                      /\ "status" \in DOMAIN out.result
                   THEN [twice |-> TRUE, before |-> out.before]
                   ELSE [twice |-> FALSE, before |-> << >>]]

\* read_file of main.py (the same code is in file_ops.py and tools.py)
ReadFileMain ==
  /\ registry.log = << >>
  /\ \E i \in 1..Len(PathPool) :
       LET p == PathPool[i]
           t == FromCwd(NormPath(p))
       IN IF Unsafe(p)
          THEN Called("read_file", "main", i, "r", [error |-> "unsafe_path"], << >>, << >>)
          ELSE Called("read_file", "main", i, "r", ReadAt(t, NormPath(p)), Opened(t), << >>)
  /\ UNCHANGED << turnVars, sessionVars, registry, fs >>

\* read_file.py: invoke
ReadFileInvoke ==
  /\ registry.log = << >>
  /\ \E i \in 1..Len(PathPool) :
       LET p == PathPool[i]
           t == Candidate(p)
       IN IF ~Inside(t, fs.cwd)
          THEN Called("read_file", "invoke", i, "r",
                      [error |-> "unsafe_path", path |-> p.segs], << >>, << >>)
          ELSE Called("read_file", "invoke", i, "r", ReadAt(t, t), Opened(t), << >>)
  /\ UNCHANGED << turnVars, sessionVars, registry, fs >>

WrittenAlwaysAppended(old, c, mode) == old \o c

\* open(norm, "w" or "a").write(content)
Written(old, c, mode) == IF mode = "append" THEN old \o c ELSE c

Modes == {"overwrite", "append", "replace"}

Holds(t) == IF t \in DOMAIN fs.files THEN fs.files[t] ELSE << >>

\* os.makedirs(parent, exist_ok=True) / target.parent.mkdir(parents=True, ...)
MakeDirs(t) == fs.dirs \cup Ancestors(t)

Put(t, c, mode, made) ==
  [fs EXCEPT !.dirs = made,
             !.writes = @ + 1,
             !.files = [q \in DOMAIN fs.files \cup {t} |->
                          IF q = t THEN Written(Holds(t), c, mode) ELSE fs.files[q]]]

Ok(shown, mode, c) == [status |-> "ok", path |-> shown, mode |-> mode, bytes_written |-> Len(c)]

\* write_file of main.py (the same code is in file_ops.py and tools.py): the
\* parent directories are made before the mode is looked at
WriteFileMain ==
  /\ registry.log = << >>
  /\ fs.writes < MaxWrites
  /\ \E i \in 1..Len(PathPool), mode \in Modes :
       LET p == PathPool[i]
           t == FromCwd(NormPath(p))
       IN IF Unsafe(p)
          THEN /\ Called("write_file", "main", i, mode,
                         [error |-> "unsafe_path", path |-> p.segs], << >>, << >>)
               /\ fs' = fs
          ELSE IF mode \notin {"overwrite", "append"}
          THEN /\ Called("write_file", "main", i, mode, [error |-> "bad_mode"], << >>, << >>)
               /\ fs' = [fs EXCEPT !.dirs = MakeDirs(t)]
          ELSE IF t \in fs.dirs
          THEN /\ Called("write_file", "main", i, mode,
                         [error |-> "IsADirectoryError", path |-> p.segs], << >>, << >>)
               /\ fs' = [fs EXCEPT !.dirs = MakeDirs(t)]
          ELSE /\ Called("write_file", "main", i, mode, Ok(NormPath(p), mode, Hi),
                         << t >>, Holds(t))
               /\ fs' = Put(t, Hi, mode, MakeDirs(t))
  /\ UNCHANGED << turnVars, sessionVars, registry >>

\* write_file.py: invoke
WriteFileInvoke ==
  /\ registry.log = << >>
  /\ fs.writes < MaxWrites
  /\ \E i \in 1..Len(PathPool), mode \in Modes :
       LET p == PathPool[i]
           t == Candidate(p)
       IN IF ~Inside(t, fs.cwd)
          THEN /\ Called("write_file", "invoke", i, mode,
                         [error |-> "unsafe_path", path |-> p.segs], << >>, << >>)
               /\ fs' = fs
          ELSE IF mode \notin {"overwrite", "append"}
          THEN /\ Called("write_file", "invoke", i, mode, [error |-> "bad_mode"], << >>, << >>)
               /\ fs' = fs
          ELSE IF t \in fs.dirs
          THEN /\ Called("write_file", "invoke", i, mode,
                         [error |-> "IsADirectoryError", path |-> t], << >>, << >>)
               /\ fs' = [fs EXCEPT !.dirs = MakeDirs(t)]
          ELSE /\ Called("write_file", "invoke", i, mode, Ok(t, mode, Hi), << t >>, Holds(t))
               /\ fs' = Put(t, Hi, mode, MakeDirs(t))
  /\ UNCHANGED << turnVars, sessionVars, registry >>

\* what the two endpoints of list_models answer: the primary faults, lists
\* nothing that has a name, or lists names; the tags endpoint faults or answers
EndpointPool ==
  << [primary |-> [ok |-> FALSE, names |-> << >>],        tags |-> [ok |-> FALSE, models |-> << >>]],
     [primary |-> [ok |-> FALSE, names |-> << >>],        tags |-> [ok |-> TRUE,  models |-> << "m2" >>]],
     [primary |-> [ok |-> TRUE,  names |-> << >>],        tags |-> [ok |-> FALSE, models |-> << >>]],
     [primary |-> [ok |-> TRUE,  names |-> << >>],        tags |-> [ok |-> TRUE,  models |-> << "m2" >>]],
     [primary |-> [ok |-> TRUE,  names |-> << "m1" >>],   tags |-> [ok |-> FALSE, models |-> << >>]],
     [primary |-> [ok |-> TRUE,  names |-> << "m1" >>],   tags |-> [ok |-> TRUE,  models |-> << "m2" >>]] >>

V1Models == << "v1", "models" >>
ApiTags == << "api", "tags" >>

TagsFaultRaises(e) == [raised |-> e]

\* except Exception as e: return json.dumps({"error": str(e)})
TagsFault(e) == [error |-> e]

\* list_models of main.py (the same code is in list_models.py and tools.py)
ListModels ==
  /\ registry.log = << >>
  /\ \E i \in 1..Len(EndpointPool) :
       LET e == EndpointPool[i]
       IN IF e.primary.ok /\ e.primary.names # << >>
          THEN Called("list_models", "main", i, "r",
                      [source |-> V1Models, models |-> e.primary.names], << V1Models >>, << >>)
          ELSE Called("list_models", "main", i, "r",
                      IF e.tags.ok THEN [source |-> ApiTags, models |-> e.tags.models]
                      ELSE TagsFault("URLError"),
                      << V1Models, ApiTags >>, << >>)
  /\ UNCHANGED << turnVars, sessionVars, registry, fs >>

\* the chunks of a streaming response, by what they carry: choices or none,
\* and each of delta.content, message.content, text absent, empty or a text
ChunkShapes == 2 * 3 * 3 * 3

Carried(k, n, txt) ==
  LET d == ((k - 1) \div n) % 3
  IN IF d = 0 THEN None ELSE IF d = 1 THEN << >> ELSE txt

ChunkOf(k) ==
  [choices |-> ((k - 1) \div 27) % 2 = 1,
   delta   |-> Carried(k, 1, << "d" >>),
   message |-> Carried(k, 3, << "m" >>),
   text    |-> Carried(k, 9, << "t" >>)]

\* the body of the loop over the stream: piece = _extract_stream_piece(chunk);
\* if piece: buf.append(piece); self.stream_delta.emit(piece)
StreamLoopBody ==
  /\ registry.log = << >>
  /\ \E k \in 1..ChunkShapes :
       LET piece == ExtractStreamPiece(ChunkOf(k))
       IN Called("stream", "main", k, "r",
                 [piece |-> piece, emitted |-> IF Truthy(piece) THEN << piece >> ELSE << >>],
                 << >>, << >>)
  /\ UNCHANGED << turnVars, sessionVars, registry, fs >>

ToolsNext ==
  \/ RegisterTool
  \/ ReadFileMain \/ ReadFileInvoke \/ WriteFileMain \/ WriteFileInvoke
  \/ ListModels \/ StreamLoopBody

\* the tools loaded in any of the working directories, no window, no turn
ToolsInit ==
  /\ \E cwd \in Roots : ToolsStart(cwd)
  /\ SessionStart(FALSE)
  /\ TurnIdle

Tools == ToolsInit /\ [][ToolsNext]_vars

\* ------------------------------------------------------------- properties
\* the tool-role messages the turn has appended (after the assistant message)
ToolMsgs == SubSeq(messages, Len(Conversation) + 2, Len(messages))

\* a tool call has been looked up and has not yet been answered
InDispatch == pc \in {"call", "sm_probe", "sm_probe_wait", "sm_unload", "sm_return", "debug"}

InSetModel == pc \in {"sm_probe", "sm_probe_wait", "sm_unload", "sm_return"}

Answered(content) == "status" \in DOMAIN content /\ content.status = "ok"

RECURSIVE ServingModel(_)
\* The model the first n answered tool calls leave selected: the model asked
\* for by the last set_model call among them that answered "ok", else the default.
ServingModel(n) ==
  IF n = 0 THEN DefaultModel
  ELSE IF Answered(ToolMsgs[n].content)
       THEN first.tool_calls[n].arguments.dict.model
       ELSE ServingModel(n - 1)

\* the requests that ask for the final answer
IsFinal(r) == r.kind \in {"final", "stream"}

\* C1 (as stated): in every turn started with stream=True the worker has
\* emitted stream_finished exactly once when the turn is over.
C1_StreamFinishedAlwaysOnce ==
  (pc = "done" /\ stream) => Count("stream_finished") = 1

\* C1 (amended): stream_finished is emitted at most once per turn, and exactly
\* once precisely in the turns whose streaming request returned a stream; the
\* thread's finished notification is emitted exactly once in every turn.
C1_CompletionNotification ==
  /\ Count("stream_finished") <= 1
  /\ Count("finished") <= 1
  /\ pc = "done" =>
       /\ Count("finished") = 1
       /\ Count("stream_finished") = (IF transport.state = "none" THEN 0 ELSE 1)

C1_Witness ==
  /\ pc = "done" /\ _abort /\ stream
  /\ transport.state = "faulted"
  /\ Count("stream_finished") = 1 /\ Count("finished") = 1

\* C2: once the abort flag is set, every signal the worker still emits is the
\* end-of-stream / completion notification.
C2_NoSignalAfterAbort ==
  [][_abort => \A i \in (Len(signals) + 1)..Len(signals') :
                  signals'[i].sig \in {"stream_finished", "finished"}]_vars

\* C3: when abort() sets the flag while the stream is assigned, the loop
\* fetches at most one more chunk, the turn ends with stream_finished emitted
\* exactly once, and neither result nor error is ever emitted.
C3_AbortMidStream ==
  /\ [](hist.open => /\ hist.fetched <= 1
                     /\ Count("stream_finished") <= 1
                     /\ Count("result") = 0
                     /\ Count("error") = 0)
  /\ [](hist.open => <>(pc = "done" /\ Count("stream_finished") = 1))

C3_Witness ==
  /\ hist.open /\ pc = "done"
  /\ hist.fetched = 1
  /\ Count("stream_delta") = 1
  /\ Count("stream_finished") = 1

\* C4 (as stated): after the abort flag is set the turn begins no tool
\* dispatch and issues no final or streaming request.
C4_NothingBegunAfterAbort == hist.late = 0

\* C4 (amended): after the abort flag is set the turn begins at most one more
\* operation (a tool dispatch, or the final or streaming request), and only
\* the one whose flag check had already passed when the flag was set.
C4_AtMostTheCheckedOne ==
  /\ hist.late <= 1
  /\ hist.late = 1 => hist.checked

C4_Witness ==
  /\ pc = "done" /\ _abort
  /\ hist.late = 1 /\ hist.checked
  /\ Len(dispatched) = 1 /\ Len(first.tool_calls) = 2

\* C5: when the turn and abort() are both over, a stream the turn created is
\* not left open.
C5_StreamClosed ==
  (pc = "done" /\ apc = "a_done") => transport.state # "open"

\* C6: the calls are dispatched one at a time in the order of the first
\* response; a call is begun only when every earlier call has its tool-role
\* message, and a set_model call starts from the pointer the earlier calls left.
C6_SequentialDispatch ==
  /\ Len(dispatched) <= Len(first.tool_calls)
  /\ \A k \in 1..Len(dispatched) : dispatched[k] = first.tool_calls[k].id
  /\ Len(ToolMsgs) = (IF InDispatch THEN Len(dispatched) - 1 ELSE Len(dispatched))
  /\ \A k \in 1..Len(ToolMsgs) : ToolMsgs[k].name = first.tool_calls[k].name
  /\ InSetModel => loc.old = ServingModel(Len(ToolMsgs))

C6_Witness ==
  /\ Len(dispatched) = 2 /\ InSetModel
  /\ loc.old = "m2" /\ CURRENT_MODEL = "m1"

\* C7: the worker's messages are the snapshot, then (if the first response
\* carries calls) one assistant message with all the calls, then one tool-role
\* message per answered call, in call order, carrying that call's id; a turn
\* that ends without abort has answered every call.
C7_ToolCallsConsumedOnce ==
  LET calls == first.tool_calls
  IN /\ SubSeq(messages, 1, Len(Conversation)) = Conversation
     /\ pc \in {"init", "start", "first_wait", "first_check", "branch"} => messages = Conversation
     /\ calls = <<>> => messages = Conversation
     /\ Len(messages) > Len(Conversation) =>
          /\ messages[Len(Conversation) + 1].role = "assistant"
          /\ messages[Len(Conversation) + 1].tool_calls = calls
     /\ Len(ToolMsgs) <= Len(calls)
     /\ \A k \in 1..Len(ToolMsgs) :
          /\ ToolMsgs[k].role = "tool"
          /\ ToolMsgs[k].tool_call_id = calls[k].id
     /\ \A j, k \in 1..Len(calls) : j # k => calls[j].id # calls[k].id
     /\ (pc = "done" /\ ~_abort /\ calls # <<>>) => Len(ToolMsgs) = Len(calls)

C7_Witness ==
  /\ pc = "done" /\ ~_abort
  /\ Len(first.tool_calls) = 2 /\ Len(ToolMsgs) = 2
  /\ ToolMsgs[2].tool_call_id = first.tool_calls[2].id

\* C8: the request for the final answer after tool dispatch names the model
\* of the last set_model call that succeeded in the turn (the default when
\* none did), which is the pointer's value after the last dispatch.
C8_FinalRequestModel ==
  \A i \in 1..Len(requests) :
    (IsFinal(requests[i]) /\ sloc.path = "tools") =>
      /\ requests[i].model = ServingModel(Len(ToolMsgs))
      /\ requests[i].model = CURRENT_MODEL

C8_Witness ==
  /\ sloc.path = "tools"
  /\ \E i \in 1..Len(requests) : IsFinal(requests[i]) /\ requests[i].model = "m1"
  /\ Len(ToolMsgs) = 2 /\ ~Answered(ToolMsgs[2].content)

\* C9: the step in which set_model's liveness probe fails leaves the pointer
\* at the value it had before the call, returns status "failed", and sends no
\* unload request (the probe stays the last request sent).
C9_RollbackOnProbeFailure ==
  [][(pc = "sm_probe_wait" /\ pc' = "debug") =>
       /\ CURRENT_MODEL' = ServingModel(Len(ToolMsgs))
       /\ loc'.content.status = "failed"
       /\ requests' = requests
       /\ requests[Len(requests)].kind = "probe"]_vars

C9_Witness ==
  /\ pc = "debug" /\ loc.name = "set_model"
  /\ "status" \in DOMAIN loc.content /\ loc.content.status = "failed"
  /\ ArgUnloadPrevious(loc.args)
  /\ CURRENT_MODEL = "m2" /\ loc.args.model = "m1"

\* the models a set_model call of this turn has switched to successfully
Succeeded ==
  { first.tool_calls[k].arguments.dict.model :
      k \in {j \in 1..Len(ToolMsgs) : Answered(ToolMsgs[j].content)} }
  \cup (IF pc \in {"sm_unload", "sm_return"} \/ (pc = "debug" /\ Answered(loc.content))
        THEN {loc.args.model} ELSE {})

\* C10: in every state the pointer holds the configured default or a model
\* a set_model call has switched to successfully.
C10_PointerOnlyConfirmed == CURRENT_MODEL \in {DefaultModel} \cup Succeeded

\* C11: the request for the final answer after tool dispatch carries no tool
\* specs; every implementation call is for a call of the first response, each
\* at most once, and a tool call a later response carries is never dispatched.
C11_NoToolTwice ==
  LET ids == {first.tool_calls[k].id : k \in 1..Len(first.tool_calls)}
  IN /\ \A i \in 1..Len(requests) :
          (IsFinal(requests[i]) /\ sloc.path = "tools") => ~requests[i].tools
     /\ Len(hist.invoked) <= Len(first.tool_calls)
     /\ \A j \in 1..Len(hist.invoked) : hist.invoked[j] \in ids
     /\ \A j, k \in 1..Len(hist.invoked) : j # k => hist.invoked[j] # hist.invoked[k]
     /\ \A j \in 1..Len(dispatched) : dispatched[j] \in ids
     /\ LaterCallId \notin ids
     /\ hist.later => (dispatched = <<>> /\ hist.invoked = <<>>)

C11_Witness ==
  /\ pc = "done" /\ sloc.path = "tools"
  /\ Len(hist.invoked) = 2 /\ Len(first.tool_calls) = 2
  /\ \E i \in 1..Len(requests) : IsFinal(requests[i]) /\ ~requests[i].tools

\* positions of the signals of one kind, and of the parse-error notes
Positions(sig) == {i \in 1..Len(signals) : signals[i].sig = sig}

ParseNotes == {i \in Positions("tool_debug") : signals[i].val = "parse_error"}

FinalRequested == \E i \in 1..Len(requests) : IsFinal(requests[i])

\* a turn that ran to its end without abort() having been called
EndedUnaborted == pc = "done" /\ ~_abort

\* the call's arguments are not JSON / its implementation raises on them
BadArguments(tc) == ~tc.arguments.valid

ToolRaises(tc) ==
  LET a == IF tc.arguments.valid THEN tc.arguments.dict ELSE EmptyArgs
  IN \/ tc.name = "add" /\ ~({"a", "b"} \subseteq DOMAIN a)
     \/ tc.name = "set_model" /\ "model" \notin DOMAIN a

\* C12: once the first request has faulted it stays the only request, nothing
\* is dispatched, no stream is started and no result is emitted; the turn,
\* unless aborted, ends having emitted exactly one error.
C12_FirstFaultOneError ==
  hist.fault = "first" =>
    /\ Len(requests) = 1 /\ requests[1].kind = "first"
    /\ dispatched = <<>> /\ hist.invoked = <<>>
    /\ transport.state = "none"
    /\ Count("tool_debug") = 0 /\ Count("stream_started") = 0
    /\ Count("stream_finished") = 0 /\ Count("result") = 0
    /\ Count("error") <= 1
    /\ EndedUnaborted => Count("error") = 1

C12_Witness ==
  /\ hist.fault = "first" /\ EndedUnaborted
  /\ Count("error") = 1 /\ Len(signals) = 2

\* C13: in a turn that was not aborted and whose streaming request faulted,
\* the fragments emitted before the fault are all in the signal sequence,
\* followed by stream_finished, followed by exactly one error, and there is
\* no result.
C13_StreamFaultTrailingError ==
  (hist.fault \in {"stream_open", "stream_read"} /\ EndedUnaborted) =>
    /\ Count("result") = 0
    /\ Count("error") = 1
    /\ Count("stream_delta") = Len(sloc.buf)
    /\ \E f \in Positions("stream_finished"), e \in Positions("error") :
         /\ f < e
         /\ \A d \in Positions("stream_delta") : d < f

\* C14: a call whose name is not in the function table is answered with the
\* unknown_tool envelope naming it, without any implementation being invoked;
\* the turn, unless aborted, still answers every call and asks for the final
\* answer.
C14_UnknownToolRecovered ==
  LET calls == first.tool_calls
      unknown == {k \in 1..Len(calls) : calls[k].name \notin FUNCTIONS}
  IN /\ \A k \in unknown :
          /\ k <= Len(ToolMsgs) =>
               ToolMsgs[k].content = [error |-> << "unknown_tool", calls[k].name >>]
          /\ \A j \in 1..Len(hist.invoked) : hist.invoked[j] # calls[k].id
     /\ (EndedUnaborted /\ unknown # {}) =>
          /\ Len(ToolMsgs) = Len(calls)
          /\ FinalRequested

C14_Witness ==
  /\ EndedUnaborted
  /\ Len(first.tool_calls) = 2 /\ first.tool_calls[1].name = "nope"
  /\ Len(ToolMsgs) = 2 /\ "sum" \in DOMAIN ToolMsgs[2].content
  /\ FinalRequested

\* C15: every call begun with arguments that are not JSON has produced one
\* parse-error note on tool_debug and runs with empty arguments; it is
\* answered with a tool-role message like any other call, the turn (unless
\* aborted) answers every call and asks for the final answer, and an error is
\* emitted only when a transport call faulted.
C15_BadArgumentsRecovered ==
  LET calls == first.tool_calls
      bad == {k \in 1..Len(calls) : BadArguments(calls[k])}
  IN /\ Cardinality(ParseNotes) = Cardinality({k \in bad : k <= Len(dispatched)})
     /\ (InDispatch /\ Len(dispatched) \in bad) => DOMAIN loc.args = {}
     /\ \A k \in bad : k <= Len(ToolMsgs) =>
          /\ ToolMsgs[k].role = "tool"
          /\ ToolMsgs[k].tool_call_id = calls[k].id
     /\ (EndedUnaborted /\ bad # {}) =>
          /\ Len(ToolMsgs) = Len(calls)
          /\ FinalRequested
     /\ Count("error") > 0 => hist.fault # "none"

C15_Witness ==
  /\ EndedUnaborted
  /\ Len(first.tool_calls) = 2 /\ BadArguments(first.tool_calls[1])
  /\ Cardinality(ParseNotes) = 1
  /\ Len(ToolMsgs) = 2
  /\ Count("result") = 1 /\ Count("error") = 0

\* C16: a call whose implementation raises is answered with the error
\* envelope of the fault; run() never reaches its except clause, and never
\* emits error, unless a transport call faulted; the turn (unless aborted)
\* answers every call and asks for the final answer.
C16_ToolFaultCaught ==
  LET calls == first.tool_calls
      raising == {k \in 1..Len(calls) : ToolRaises(calls[k])}
  IN /\ \A k \in raising : k <= Len(ToolMsgs) =>
          ToolMsgs[k].content = [error |-> "TypeError"]
     /\ pc \in {"except", "emit_error"} => hist.fault # "none"
     /\ Count("error") > 0 => hist.fault # "none"
     /\ (EndedUnaborted /\ raising # {}) =>
          /\ Len(ToolMsgs) = Len(calls)
          /\ FinalRequested

C16_Witness ==
  /\ EndedUnaborted
  /\ Len(first.tool_calls) = 2 /\ ToolRaises(first.tool_calls[1])
  /\ Len(hist.invoked) = 2
  /\ Len(ToolMsgs) = 2 /\ ToolMsgs[2].content = [status |-> "ok", old |-> "m0",
                                                 new |-> "m2", errors |-> <<>>]
  /\ FinalRequested

\* the place of a signal in the order of a turn
Rank(sig) ==
  CASE sig = "tool_debug" -> 1
    [] sig = "stream_started" -> 2
    [] sig = "stream_delta" -> 3
    [] sig = "stream_finished" -> 4
    [] sig \in {"result", "error"} -> 5
    [] OTHER -> 6

Among(sigs, names) == {i \in 1..Len(sigs) : sigs[i].sig \in names}

InOrder(sigs) ==
  /\ \A i, j \in 1..Len(sigs) : i < j => Rank(sigs[i].sig) <= Rank(sigs[j].sig)
  /\ Cardinality(Among(sigs, {"stream_started"})) <= 1
  /\ Cardinality(Among(sigs, {"stream_finished"})) <= 1
  /\ Cardinality(Among(sigs, {"result", "error"})) <= 1
  /\ \A d \in Among(sigs, {"stream_delta"}) :
       \E b \in Among(sigs, {"stream_started"}) : b < d

\* C19: the signals of a turn come in the order tool_debug*, stream_started,
\* stream_delta*, stream_finished, then at most one result or error; every
\* fragment is emitted after stream_started, before stream_finished, and is
\* the piece of the chunk the transport produced last, emitted before the
\* next chunk is asked for.
C19_EmissionOrder ==
  [][ /\ InOrder(signals')
      /\ Among(signals', {"stream_delta"}) # Among(signals, {"stream_delta"}) =>
            /\ pc = "st_piece" /\ pc' = "st_next"
            /\ signals' = Append(signals, [sig |-> "stream_delta",
                                           val |-> ExtractStreamPiece(sloc.chunk)]) ]_vars

\* an un-aborted turn that called a tool and streamed two fragments
C19_Witness ==
  /\ pc = "done" /\ ~_abort
  /\ Count("tool_debug") >= 1
  /\ Count("stream_started") = 1
  /\ Count("stream_delta") = 2
  /\ Count("stream_finished") = 1
  /\ Count("result") = 1

\* C20: when the first response carries no tool calls, the text a turn
\* delivers in its result signal is the text a turn with stream = False
\* delivers for that response, the stripped content of the first response,
\* whether the turn streams or not.
C20_SameFinalText ==
  first.tool_calls = <<>> =>
    \A i \in Positions("result") : signals[i].val = Strip(first.content)

\* -------------------------------------------------- properties of the session
\* C17: at most one turn is active at any time: a worker thread that is
\* still running is the one on_send started last, every earlier one has
\* terminated.
C17_OneActiveTurn == \A w \in 1..MaxTurns : Live(w) => w = win.worker

\* the messages a worker's loop appends to its list during a turn
IsLoopMessage(m) == m.role = "tool" \/ m.content = "tool_calls"

\* C18: the worker works on a copy: the caller's conversation changes only
\* by on_send appending the user message of the turn it starts and by
\* on_result appending the assistant message of the delivered result; the
\* assistant tool-call message and the tool messages never appear in it.
C18_SnapshotIsolation ==
  [][ LET own == lists[win.messages]
          now == lists'[win'.messages]
      IN  /\ win'.messages = win.messages
          /\ now # own =>
                \/ /\ win'.worker # win.worker
                   /\ now = Append(own, UserMessage(win'.worker))
                \/ /\ events # <<>> /\ Head(events).sig = "result"
                   /\ events' = Tail(events)
                   /\ now = Append(own, AssistantText(Head(events).w))
          /\ \A i \in 1..Len(now) : ~IsLoopMessage(now[i]) ]_vars

\* a turn with a tool call has run to its result: the worker's list holds
\* the tool-call and tool messages, the caller's the assistant's answer
C18_Witness ==
  \E w \in 1..MaxTurns :
    /\ threads[w].pc = "exiting"
    /\ \E i \in 1..Len(lists[threads[w].messages]) :
         lists[threads[w].messages][i] = ToolReply(w)
    /\ lists[win.messages][Len(lists[win.messages])] = AssistantText(w)

\* ---------------------------------------------------- properties of the tools
\* the registrations of name n, by position in the order they were made
RegistrationsOf(n) == {k \in 1..Len(registry.log) : registry.log[k].name = n}

LastOf(n) == CHOOSE k \in RegistrationsOf(n) : \A j \in RegistrationsOf(n) : j <= k

SpecsOf(n) == {k \in 1..Len(registry.TOOLS) : registry.TOOLS[k].name = n}

\* C21: after any sequence of registrations, lookup of a name returns the
\* implementation registered last under it, and the advertised list holds
\* exactly one spec per registered name, in registration order.
C21_RegistryUnique ==
  \A n \in ToolNames :
    IF RegistrationsOf(n) = {}
    THEN registry.FUNCTIONS[n] = 0 /\ SpecsOf(n) = {}
    ELSE /\ registry.FUNCTIONS[n] = registry.log[LastOf(n)].fn
         /\ Cardinality(SpecsOf(n)) = 1
         /\ \A m \in ToolNames \ {n} : \A i \in SpecsOf(n) : \A j \in SpecsOf(m) :
              i < j => \E a \in RegistrationsOf(n) : \A b \in RegistrationsOf(m) : a < b

\* C22: read_file("../secret.txt") and read_file("/etc/passwd") return exactly
\* {error: "unsafe_path"} and open no file, whatever the sandbox root is and
\* whatever the filesystem holds.
C22_TraversalRejected ==
  (out.tool = "read_file" /\ out.arg \in {1, 2}) =>
     out.result = [error |-> "unsafe_path"] /\ out.opened = << >>

\* the files under the sandbox root
Confined(t) == Len(t) > Len(fs.cwd) /\ SubSeq(t, 1, Len(fs.cwd)) = fs.cwd

HasTraversal(p) == \E k \in 1..Len(p.segs) : p.segs[k] = ".."

\* C23: read_file and write_file either return unsafe_path and open no file,
\* or open a file inside the sandbox root; every absolute path and every
\* path with a ".." segment is rejected.
C23_Confined ==
  out.tool \in {"read_file", "write_file"} =>
    /\ \A k \in 1..Len(out.opened) : Confined(out.opened[k])
    /\ (PathPool[out.arg].abs \/ HasTraversal(PathPool[out.arg])) =>
          /\ "error" \in DOMAIN out.result
          /\ out.result.error = "unsafe_path"
          /\ out.opened = << >>

\* C24: write_file on a safe path, applied twice with the same arguments:
\* in mode "append" the file holds what it held before followed by the content
\* twice, in mode "overwrite" it holds exactly the content; the parent
\* directories of the file exist afterwards.
C24_WriteTwice ==
  (out.tool = "write_file" /\ out.prev.twice /\ "status" \in DOMAIN out.result) =>
     LET t == out.opened[1]
     IN /\ out.mode = "append" => fs.files[t] = out.prev.before \o Hi \o Hi
        /\ out.mode = "overwrite" => fs.files[t] = Hi
        /\ Ancestors(t) \subseteq fs.dirs
        /\ out.result.bytes_written = Len(Hi)

\* "a/b" appended to twice, as a new file under a directory that was missing
C24_Witness ==
  /\ out.tool = "write_file" /\ out.prev.twice /\ out.mode = "append"
  /\ out.arg = 3 /\ out.prev.before = << >>
  /\ fs.files[out.opened[1]] = << "h", "i", "h", "i" >>
  /\ fs.cwd \o << "a" >> \in fs.dirs

C24_WitnessOverwrite ==
  /\ out.tool = "write_file" /\ out.prev.twice /\ out.mode = "overwrite"
  /\ out.arg = 3 /\ fs.files[out.opened[1]] = Hi

\* C25: list_models asks the primary endpoint first; when the primary faults
\* and the tags endpoint answers, the result is the tags endpoint's data with
\* no trace of the primary's fault; whatever the two endpoints do, the call
\* returns a value (a listing or an error envelope) and raises nothing.
C25_ListModelsFallback ==
  out.tool = "list_models" =>
     LET e == EndpointPool[out.arg]
     IN /\ out.opened # << >> /\ out.opened[1] = V1Models
        /\ (~e.primary.ok /\ e.tags.ok) =>
              /\ out.result = [source |-> ApiTags, models |-> e.tags.models]
              /\ out.opened = << V1Models, ApiTags >>
        /\ (~e.primary.ok /\ ~e.tags.ok) => out.result = [error |-> "URLError"]
        /\ DOMAIN out.result \in {{"source", "models"}, {"error"}}

\* the primary faulted and the tags endpoint answered
C25_Witness ==
  /\ out.tool = "list_models"
  /\ ~EndpointPool[out.arg].primary.ok /\ EndpointPool[out.arg].tags.ok
  /\ out.result.source = ApiTags

\* C26: in set_model the unload requests go to /api/unload, /api/stop
\* (model) and /api/stop (name) in this order, one per failure so far; after
\* a success no further path is tried, every failure is added to the errors
\* list, and whatever the outcomes the call returns status "ok" with the
\* pointer at the new model; status "failed" comes from the probe only.
C26_UnloadBestEffort ==
  [][/\ (pc = "sm_unload" /\ requests' # requests) =>
          LET r == requests'[Len(requests')]
              k == Len(loc.errors) + 1
          IN /\ requests' = Append(requests, r)
             /\ r.kind = "unload" /\ r.model = loc.old
             /\ r.path = << [path |-> "/api/unload", key |-> "model"],
                            [path |-> "/api/stop", key |-> "model"],
                            [path |-> "/api/stop", key |-> "name"] >>[k]
             /\ \/ loc'.errors = loc.errors /\ pc' = "sm_return"
                \/ /\ loc'.errors = Append(loc.errors, r.path.path)
                   /\ pc' = IF k = 3 THEN "sm_return" ELSE "sm_unload"
     /\ (pc = "sm_return" /\ pc' # pc) =>
          /\ pc' = "debug" /\ requests' = requests
          /\ loc'.content = [status |-> "ok", old |-> loc.old,
                             new |-> loc.args.model, errors |-> loc.errors]
          /\ CURRENT_MODEL' = loc.args.model
     /\ (pc' = "debug" /\ pc # pc' /\ loc'.name = "set_model"
           /\ "status" \in DOMAIN loc'.content /\ loc'.content.status = "failed") =>
          pc = "sm_probe_wait"]_vars

\* the first two unload paths failed, the third succeeded, the switch is "ok"
C26_Witness ==
  /\ pc = "debug" /\ loc.name = "set_model"
  /\ "status" \in DOMAIN loc.content /\ loc.content.status = "ok"
  /\ loc.content.errors = << "/api/unload", "/api/stop" >>
  /\ requests[Len(requests)].kind = "unload"
  /\ requests[Len(requests)].path = [path |-> "/api/stop", key |-> "name"]
  /\ CURRENT_MODEL = loc.args.model /\ CURRENT_MODEL # loc.old

\* the "Called tool" diagnostics among the tool_debug events
CallNotes == Positions("tool_debug") \ ParseNotes

\* C27 as stated: outside a dispatch the number of tool_debug events equals
\* the number of calls answered (one event per dispatch).
C27_ExactlyOneDebug == ~InDispatch => Count("tool_debug") = Len(ToolMsgs)

\* C27: every answered call has one "Called tool" diagnostic naming its tool,
\* every call begun with arguments that are not JSON has one parse-error
\* diagnostic besides, and tool_debug carries nothing else; each diagnostic
\* comes with the tool-role message of its call, and the turn (unless
\* aborted) answers every call and asks for the final answer.
C27_DebugPerDispatch ==
  LET calls == first.tool_calls
  IN /\ Cardinality(CallNotes) = Len(ToolMsgs)
     /\ Cardinality(ParseNotes)
          = Cardinality({k \in 1..Len(dispatched) : ~calls[k].arguments.valid})
     /\ \A k \in 1..Len(ToolMsgs) :
          /\ ToolMsgs[k].role = "tool" /\ ToolMsgs[k].tool_call_id = calls[k].id
          /\ \E i \in CallNotes :
               /\ signals[i].val = calls[k].name
               /\ Cardinality({j \in CallNotes : j < i}) = k - 1
     /\ (EndedUnaborted /\ Len(calls) > 0) =>
          /\ Len(ToolMsgs) = Len(calls)
          /\ FinalRequested

\* two calls, the first with arguments that are not JSON: three diagnostics
C27_Witness ==
  /\ EndedUnaborted /\ Len(first.tool_calls) = 2
  /\ ~first.tool_calls[1].arguments.valid /\ first.tool_calls[2].arguments.valid
  /\ Count("tool_debug") = 3 /\ Cardinality(CallNotes) = 2
  /\ Len(ToolMsgs) = 2 /\ FinalRequested

\* C28: the fragment of a chunk is the delta content if that is a non-empty
\* text, else the message content if non-empty, else the text field if
\* non-empty; a chunk without choices, or with none of the three, gives no
\* fragment; the loop emits the fragment if there is one and nothing
\* otherwise, so it never emits an empty fragment.
C28_FragmentPriority ==
  out.tool = "stream" =>
     LET c == ChunkOf(out.arg)
         expected == IF ~c.choices THEN None
                     ELSE IF c.delta = << "d" >> THEN << "d" >>
                     ELSE IF c.message = << "m" >> THEN << "m" >>
                     ELSE IF c.text = << "t" >> THEN << "t" >>
                     ELSE None
     IN /\ out.result.piece = expected
        /\ out.result.emitted = IF expected = None THEN << >> ELSE << expected >>
        /\ \A i \in 1..Len(out.result.emitted) : out.result.emitted[i] # << >>

\* a chunk with an empty delta, a message and a text: the message is taken
C28_Witness ==
  /\ out.tool = "stream"
  /\ ChunkOf(out.arg) = [choices |-> TRUE, delta |-> << >>,
                         message |-> << "m" >>, text |-> << "t" >>]
  /\ out.result.emitted = << << "m" >> >>

\* C29: when the turn is over, every stream_started in the signal sequence
\* has exactly one stream_finished after it, whatever happened in between.
C29_StartedThenFinished ==
  pc = "done" =>
     \A b \in Positions("stream_started") :
        Cardinality({f \in Positions("stream_finished") : f > b}) = 1

\* the terminal signals: result and error
Terminal(e) == e.sig \in {"result", "error"}

\* C30: a turn emits at most one terminal signal; a turn that ends without
\* abort() having been called has emitted exactly one; and once the abort
\* flag is set no terminal signal is emitted any more.
C30_OneTerminalSignal ==
  /\ [](Count("result") + Count("error") <= 1)
  /\ [](EndedUnaborted => Count("result") + Count("error") = 1)
  /\ [][_abort => \A i \in (Len(signals) + 1)..Len(signals') :
                     ~Terminal(signals'[i])]_vars

\* the fragments emitted on stream_delta, in emission order, as one text
RECURSIVE Flat(_)
Flat(es) == IF es = << >> THEN << >> ELSE Head(es).val \o Flat(Tail(es))

IsDelta(e) == e.sig = "stream_delta"

\* a text without the blanks at its two ends
Trimmed(t) ==
  LET inked == {i \in 1..Len(t) : t[i] # " "}
  IN IF inked = {} THEN << >>
     ELSE SubSeq(t, CHOOSE i \in inked : \A j \in inked : i <= j,
                    CHOOSE i \in inked : \A j \in inked : j <= i)

\* C31: in a turn that emitted stream_started, a result carries the
\* fragments emitted on stream_delta before it, concatenated in emission
\* order, with the blanks at both ends removed; no fragment follows a result.
C31_ResultIsJoinedDeltas ==
  Count("stream_started") > 0 =>
     \A r \in Positions("result") :
        /\ signals[r].val = Trimmed(Flat(SelectSeq(SubSeq(signals, 1, r), IsDelta)))
        /\ \A d \in Positions("stream_delta") : d < r

\* two fragments " h" were streamed and the result is "h h"
C31_Witness ==
  /\ pc = "done" /\ Count("stream_started") = 1 /\ Count("stream_delta") = 2
  /\ \E r \in Positions("result") : signals[r].val = << "h", " ", "h" >>

\* the window's conversation: the list self.messages names
Shared == lists[win.messages]

\* no assistant text of a turn stands after the user message of a later turn
TurnsInOrder(conv) ==
  \A i, j \in 1..Len(conv) :
     (i < j /\ conv[i].role = "user" /\ conv[j].role = "assistant") =>
        conv[j].turn >= conv[i].turn

Answers(conv, w) == Cardinality({i \in 1..Len(conv) : conv[i] = AssistantText(w)})

\* no step adds an assistant text of a turn whose abort flag is set
NoAnswerOnceAborted ==
  \A w \in 1..MaxTurns :
     threads[w]._abort => Answers(lists'[win'.messages], w) = Answers(Shared, w)

\* C32: the window's conversation never holds an assistant message of an
\* earlier turn after the user message of a later turn, and no assistant
\* message is appended to it for a turn whose abort flag is set.
C32_AbortKeepsConversation ==
  /\ [] TurnsInOrder(Shared)
  /\ [][NoAnswerOnceAborted]_vars

\* the states of a turn, numbered in their order: awaiting the first
\* response, dispatching tools, awaiting the final response, ending (the
\* except clause and the return), ended
Phase(p) ==
  CASE p \in {"init", "start", "first_wait", "first_check", "branch"} -> 1
    [] p \in {"loop", "parse", "call", "sm_probe", "sm_probe_wait", "sm_unload",
              "sm_return", "debug", "pickup"} -> 2
    [] p \in {"except", "emit_error", "ret"} -> 4
    [] p = "done" -> 5
    [] OTHER -> 3

\* the completion requests of the loop (not the probe of set_model)
Completions == {i \in 1..Len(requests) : requests[i].kind \in {"first", "final", "stream"}}

\* C33: a turn never goes back to an earlier state, and nothing happens in
\* a turn that has ended; the loop makes at most two completion requests and
\* invokes at most one implementation per tool call of the first response;
\* with the worker scheduled and every call returning or faulting, the turn
\* ends.
C33_ForwardAndBounded ==
  /\ [][/\ Phase(pc') >= Phase(pc)
        /\ pc = "done" => /\ pc' = "done" /\ signals' = signals
                          /\ requests' = requests /\ messages' = messages]_vars
  /\ [](/\ Cardinality(Completions) <= 2
        /\ Len(hist.invoked) <= Len(first.tool_calls)
        /\ \A j, k \in 1..Len(hist.invoked) : j # k => hist.invoked[j] # hist.invoked[k])
  /\ <>(pc = "done")

\* a turn that went through all states: two tool calls invoked, two requests
C33_Witness ==
  /\ pc = "done" /\ ~_abort
  /\ Cardinality(Completions) = 2
  /\ Len(hist.invoked) = 2 /\ Len(first.tool_calls) = 2
  /\ Count("result") = 1

\* C34: a call of write_file that returns an error envelope leaves the
\* files and the directories as they were before the call.
C34_ErrorLeavesFilesystem ==
  [][(out'.tool = "write_file" /\ "error" \in DOMAIN out'.result) =>
        /\ fs'.files = fs.files
        /\ fs'.dirs = fs.dirs]_vars

\* on_result runs for the result at the head of the queue
ResultDelivered == events # << >> /\ Head(events).sig = "result" /\ events' = Tail(events)

\* C35: when on_result runs for a turn, _last_was_streamed is set only if
\* the stream_started of that turn set it; otherwise the result is appended
\* to the visible history.
C35_FlagOfSameTurn ==
  [][ResultDelivered =>
        LET w == Head(events).w
        IN /\ win._last_was_streamed => win.flagged = w
           /\ win.flagged # w => win'.history = Append(win.history, w)]_vars

====
